---- MODULE Spec2Model ----
(***************************************************************************)
(* QPSolverSparse (src/src/solvers/qp_solver_sparse.hpp): the ADMM solver  *)
(* for   minimize 0.5 x'Px + q'x   subject to   l <= Ax <= u.              *)
(*                                                                         *)
(* Scalar is double.  A double is modelled bit for bit as <<s, e, M>>, the *)
(* value (-1)^s * M * 2^e with M an integer below 2^53 held in four limbs  *)
(* of 14 bits (least significant first), e >= -1074, and M >= 2^52 unless  *)
(* e = -1074 (zero and the subnormals).  Every operation rounds to         *)
(* nearest, ties to even, as the hardware does; both zeros are kept.       *)
(* Only finite values are modelled: an overflow, a division by zero or the *)
(* root of a negative number stops TLC with an error instead of producing  *)
(* an infinity or a NaN, and the inputs below are chosen so that none      *)
(* happens.                                                                *)
(***************************************************************************)
EXTENDS Integers, Sequences, FiniteSets, TLC

\* Problem dimensions (the template parameters _n, _m of QP).
n == 1
m == 2

\* Largest max_iter (and check_termination, adaptive_rho_interval) a caller sets.
MaxIter == 2
\* Number of solve calls made on the one solver instance.
MaxCalls == 2
\* Number of writes a caller makes through the non-const accessors and the
\* public data members (the settings apart).
MaxWrites == 1

-----------------------------------------------------------------------------
(* Natural numbers of any size, as sequences of limbs *)

\* Bits per limb, and 2^LimbBits.
LimbBits == 14
Base == 16384
\* Bits of the significand of a double, and the exponents of its smallest
\* and largest unit in the last place.
MantBits == 53
EMin == -1074
EMax == 971

Pow2Tab ==
    <<1, 2, 4, 8, 16, 32, 64, 128, 256, 512, 1024, 2048, 4096, 8192, 16384>>
Pow2(k) == Pow2Tab[k + 1]

IMax(a, b) == IF a < b THEN b ELSE a
IMin(a, b) == IF b < a THEN b ELSE a
IAbs(i) == IF i < 0 THEN 0 - i ELSE i

\* Number of bits of v, 0 <= v < Base.
IBitLen(v) ==
    IF v < 128
    THEN IF v < 8
         THEN (IF v < 2 THEN v ELSE IF v < 4 THEN 2 ELSE 3)
         ELSE IF v < 32 THEN (IF v < 16 THEN 4 ELSE 5)
         ELSE IF v < 64 THEN 6 ELSE 7
    ELSE IF v < 2048
         THEN IF v < 512 THEN (IF v < 256 THEN 8 ELSE 9)
              ELSE IF v < 1024 THEN 10 ELSE 11
         ELSE IF v < 8192 THEN (IF v < 4096 THEN 12 ELSE 13)
         ELSE 14

Limb(N, j) == IF j >= 1 /\ j <= Len(N) THEN N[j] ELSE 0

\* Index of the most significant limb of N that is not 0, or 0.
BTop(N) ==
    CHOOSE t \in 0..Len(N) :
        (t = 0 \/ N[t] # 0) /\ \A u \in (t + 1)..Len(N) : N[u] = 0

BitsUpTo(N, t) == IF t = 0 THEN 0 ELSE LimbBits * (t - 1) + IBitLen(N[t])
BBitLen(N) == BitsUpTo(N, BTop(N))

BIsZero(N) == \A j \in 1..Len(N) : N[j] = 0

\* Index of the most significant limb in which X and Y differ, or 0.
BTopDiff(X, Y, k) ==
    CHOOSE t \in 0..k :
        /\ t = 0 \/ Limb(X, t) # Limb(Y, t)
        /\ \A u \in (t + 1)..k : Limb(X, u) = Limb(Y, u)

CmpAt(X, Y, t) ==
    IF t = 0 THEN 0 ELSE IF Limb(X, t) > Limb(Y, t) THEN 1 ELSE 0 - 1

\* 1, 0, -1 as X > Y, X = Y, X < Y.
BCmp(X, Y) == CmpAt(X, Y, BTopDiff(X, Y, IMax(Len(X), Len(Y))))

\* The limbs j..k of the number sum T[i] * Base^(i-1), T[i] any integer, with
\* c carried into limb j; what is carried out of limb k is dropped.
RECURSIVE Carry(_, _, _, _)
Carry(T, j, c, k) ==
    IF j > k THEN <<>>
    ELSE LET s == T[j] + c
         IN  <<s % Base>> \o Carry(T, j + 1, s \div Base, k)

\* The w limbs of X + Y (below Base^w)
BAdd(X, Y, w) == Carry([j \in 1..w |-> Limb(X, j) + Limb(Y, j)], 1, 0, w)

\* The w limbs of X - Y, for X >= Y
BSub(X, Y, w) == Carry([j \in 1..w |-> Limb(X, j) - Limb(Y, j)], 1, 0, w)

\* The eight limbs of X * Y, for X, Y of four limbs
BMul(X, Y) ==
    Carry(<<X[1] * Y[1],
            X[1] * Y[2] + X[2] * Y[1],
            X[1] * Y[3] + X[2] * Y[2] + X[3] * Y[1],
            X[1] * Y[4] + X[2] * Y[3] + X[3] * Y[2] + X[4] * Y[1],
            X[2] * Y[4] + X[3] * Y[3] + X[4] * Y[2],
            X[3] * Y[4] + X[4] * Y[3],
            X[4] * Y[4], 0>>, 1, 0, 8)

\* The five limbs of X * d, for X of four limbs and 0 <= d < Base
BMulSmall(X, d) == Carry(<<X[1] * d, X[2] * d, X[3] * d, X[4] * d, 0>>, 1, 0, 5)

\* The w limbs of N * 2^k (below Base^w)
BShl(N, k, w) ==
    Carry([j \in 1..w |-> Limb(N, j - k \div LimbBits) * Pow2(k % LimbBits)],
          1, 0, w)

\* The w limbs of N \div 2^k (below Base^w)
BShr(N, k, w) ==
    LET q == k \div LimbBits
        r == k % LimbBits
    IN  Carry([j \in 1..w |->
                  Limb(N, j + q) \div Pow2(r)
                    + (Limb(N, j + q + 1) % Pow2(r)) * Pow2(LimbBits - r)],
              1, 0, w)

BBit(N, k) == (Limb(N, k \div LimbBits + 1) \div Pow2(k % LimbBits)) % 2

\* N mod 2^k # 0
BLowNonZero(N, k) ==
    \/ \E j \in 1..(k \div LimbBits) : Limb(N, j) # 0
    \/ Limb(N, k \div LimbBits + 1) % Pow2(k % LimbBits) # 0

\* Q with its last bit set if lost.
JamBit(Q, lost) == [Q EXCEPT ![1] = IF lost /\ @ % 2 = 0 THEN @ + 1 ELSE @]

\* N \div 2^k in w limbs, its last bit set if a bit of N is lost.
BShrJam(N, k, w) == JamBit(BShr(N, k, w), BLowNonZero(N, k))

\* The digit q and the remainder of R1 by D, P = D * q: q comes down from
\* its estimate until P <= R1.
RECURSIVE BDivTry(_, _, _, _)
BDivTry(R1, D, q, P) ==
    IF BCmp(P, R1) <= 0 THEN <<q, BSub(R1, P, 4)>>
    ELSE BDivTry(R1, D, q - 1, BMulSmall(D, q - 1))

BDivStart(R1, D, qh) == BDivTry(R1, D, qh, BMulSmall(D, qh))

\* One digit of a long division: <<q, r>> with R * Base + d = q * D + r, for
\* R < D of four limbs and D[4] >= Base / 2.
BDivStep(R, d, D) ==
    BDivStart(<<d>> \o R, D, IMin(Base - 1, (R[4] * Base + R[3]) \div D[4]))

\* The leading digit (0 or 1) of a quotient and what it leaves.
BDivFirst(top, D) ==
    IF BCmp(top, D) >= 0 THEN <<1, BSub(top, D, 4)>> ELSE <<0, top>>

Rev5(d) == <<d[5], d[4], d[3], d[2], d[1]>>

\* The digits j..1 after the step s, Q the digits before s, leading first.
RECURSIVE BDivFrom(_, _, _, _, _)
BDivFrom(N, D, j, s, Q) ==
    IF j = 0 THEN [Q |-> Rev5(Q \o <<s[1]>>), R |-> s[2]]
    ELSE BDivFrom(N, D, j - 1, BDivStep(s[2], N[j], D), Q \o <<s[1]>>)

\* [Q |-> N div D, R |-> N mod D] for N of eight limbs and D of four with
\* D[4] >= Base / 2 and N < 2 * D * Base^4.
BDivMod(N, D) == BDivFrom(N, D, 4, BDivFirst(SubSeq(N, 5, 8), D), <<>>)

RECURSIVE ISqrtFrom(_, _)
ISqrtFrom(v, r) ==
    LET y == (r + v \div r) \div 2 IN IF y >= r THEN r ELSE ISqrtFrom(v, y)
\* floor(sqrt(v)) for 0 < v < 2^30
ISqrt(v) == ISqrtFrom(v, 32768)

\* Newton's iteration for floor(sqrt(N)), from x >= sqrt(N) downwards.
RECURSIVE BNewton(_, _)
BNewtonNext(N, x, y) == IF BCmp(y, x) >= 0 THEN x ELSE BNewton(N, y)
BNewton(N, x) == BNewtonNext(N, x, BShr(BAdd(x, BDivMod(N, x).Q, 5), 1, 4))

BSqrtFrom(N, g) ==
    BNewton(N, IF g >= Base THEN <<Base - 1, Base - 1, Base - 1, Base - 1>>
               ELSE <<0, 0, 0, g>>)

\* floor(sqrt(N)) for N of eight limbs, Base^8 / 4 <= N: the iteration is
\* started from the root of the two leading limbs.
BSqrt(N) == BSqrtFrom(N, ISqrt(N[8] * Base + N[7]) + 1)

-----------------------------------------------------------------------------
(* Scalar arithmetic *)

ZeroMant == <<0, 0, 0, 0>>
IsZero(a) == a[3] = ZeroMant

\* finite values only: an overflow is no value
Finite(s, e, M) == CASE e <= EMax -> <<s, e, M>>

\* M1 is the significand rounded up: if it has reached 2^53 it is halved.
PackUp(s, e, M1) ==
    IF M1[4] >= Pow2(MantBits - 3 * LimbBits)
    THEN Finite(s, e + 1, BShr(M1, 1, 4))
    ELSE Finite(s, e, M1)

\* M0 is the significand cut off; half: the first bit cut off is set;
\* rest: a later one is.
PackRound(s, e, M0, half, rest) ==
    IF half /\ (rest \/ M0[1] % 2 = 1) THEN PackUp(s, e, BAdd(M0, <<1>>, 4))
    ELSE Finite(s, e, M0)

\* sh bits of N are cut off (if sh > 0).
PackShift(s, N, e, sticky, sh) ==
    IF sh <= 0 THEN Finite(s, e + sh, BShl(N, 0 - sh, 4))
    ELSE PackRound(s, e + sh, BShr(N, sh, 4), BBit(N, sh - 1) = 1,
                   sticky \/ BLowNonZero(N, sh - 1))

PackLen(s, N, e, sticky, len) ==
    IF len = 0 THEN <<s, EMin, ZeroMant>>
    ELSE PackShift(s, N, e, sticky, IMax(len - MantBits, EMin - e))

\* The double nearest to (-1)^s * (N + f) * 2^e, 0 <= f < 1, f # 0 iff sticky;
\* ties to even.
Pack(s, N, e, sticky) == PackLen(s, N, e, sticky, BBitLen(N))

FNeg(a) == <<1 - a[1], a[2], a[3]>>
FAbs(a) == <<0, a[2], a[3]>>

\* <<sign, |A - L|>> of the difference of sh * A and sl * L, sh # sl, c the
\* comparison of A with L.
FSignedDiff(sh, sl, A, L, c) ==
    IF c = 0 THEN <<0, <<0>>>>
    ELSE <<IF c > 0 THEN sh ELSE sl,
           BSub(IF c > 0 THEN A ELSE L, IF c > 0 THEN L ELSE A, 4)>>

FAddPack(sm, e) == Pack(sm[1], sm[2], e, FALSE)

\* (-1)^sh * A * 2^e + (-1)^sl * L * 2^e
FAddAligned(sh, sl, A, L, e) ==
    FAddPack(IF sh = sl THEN <<sh, BAdd(A, L, 5)>>
             ELSE FSignedDiff(sh, sl, A, L, BCmp(A, L)), e)

\* hi[2] >= lo[2], neither is zero.  Both significands get three more bits
\* and lo is brought to the exponent of hi; the last of its bits stands for
\* all that are lost (when lo is far below hi, for lo itself).
FAddOrdered(hi, lo) ==
    FAddAligned(hi[1], lo[1], BShl(hi[3], 3, 4),
                BShrJam(BShl(lo[3], 3, 4), hi[2] - lo[2], 4), hi[2] - 3)

FAdd(a, b) ==
    IF IsZero(a)
    THEN IF IsZero(b)
         THEN <<IF a[1] = 1 /\ b[1] = 1 THEN 1 ELSE 0, EMin, ZeroMant>>
         ELSE b
    ELSE IF IsZero(b) THEN a
    ELSE FAddOrdered(IF a[2] >= b[2] THEN a ELSE b,
                     IF a[2] >= b[2] THEN b ELSE a)

FSub(a, b) == FAdd(a, FNeg(b))

FMul(a, b) ==
    IF IsZero(a) \/ IsZero(b) THEN <<(a[1] + b[1]) % 2, EMin, ZeroMant>>
    ELSE Pack((a[1] + b[1]) % 2, BMul(a[3], b[3]), a[2] + b[2], FALSE)

FDivPack(s, qr, e) == Pack(s, qr.Q, e, ~BIsZero(qr.R))

\* Both significands are shifted to 53 bits (by sa, sb); the quotient of
\* a * 2^59 by b * 2^3 then has 56 or 57 bits.
FDivNorm(a, b, sa, sb) ==
    FDivPack((a[1] + b[1]) % 2,
             BDivMod(BShl(a[3], sa + 59, 8), BShl(b[3], sb + 3, 4)),
             (a[2] - sa) - (b[2] - sb) - 56)

FDiv(a, b) ==
    CASE ~IsZero(b) ->
        IF IsZero(a) THEN <<(a[1] + b[1]) % 2, EMin, ZeroMant>>
        ELSE FDivNorm(a, b, MantBits - BBitLen(a[3]), MantBits - BBitLen(b[3]))

FSqrtPack(N, R, e) == Pack(0, R, e, BMul(R, R) # N)

FSqrtOf(N, e) == FSqrtPack(N, BSqrt(N), e)

\* The significand is shifted by k to 111 or 112 bits, to an even exponent;
\* the root then has 56 bits.
FSqrtShifted(a, k) == FSqrtOf(BShl(a[3], k, 8), (a[2] - k) \div 2)

FSqrtEven(a, k0) == FSqrtShifted(a, k0 - ((a[2] - k0) % 2))

FSqrt(a) ==
    IF IsZero(a) THEN a
    ELSE CASE a[1] = 0 -> FSqrtEven(a, 112 - BBitLen(a[3]))

MagCmp(a, b) ==
    IF a[2] > b[2] THEN 1 ELSE IF a[2] < b[2] THEN 0 - 1 ELSE BCmp(a[3], b[3])
Sgn(a) == IF IsZero(a) THEN 0 ELSE IF a[1] = 1 THEN 0 - 1 ELSE 1
FCmp(a, b) ==
    IF Sgn(a) # Sgn(b) THEN (IF Sgn(a) < Sgn(b) THEN 0 - 1 ELSE 1)
    ELSE Sgn(a) * MagCmp(a, b)
FLess(a, b) == FCmp(a, b) < 0
FLessEq(a, b) == FCmp(a, b) <= 0
FEq(a, b) == FCmp(a, b) = 0

\* The integer i as a double, |i| < 2^28.
FromInt(i) ==
    Pack(IF i < 0 THEN 1 ELSE 0, <<IAbs(i) % Base, IAbs(i) \div Base>>, 0, FALSE)

FSquare(a) == FMul(a, a)

\* 10^k, k <= 22: these powers are doubles, and so are their products.
RECURSIVE Pow10(_)
Pow10(k) ==
    IF k = 0 THEN FromInt(1)
    ELSE FMul(FSquare(Pow10(k \div 2)), FromInt(IF k % 2 = 0 THEN 1 ELSE 10))

DecScale(mant, p, e10) == IF e10 >= 0 THEN FMul(mant, p) ELSE FDiv(mant, p)

\* The decimal literal mant * 10^e10 as the compiler converts it, |e10| <= 22:
\* both operands are exact, so the one rounding gives the nearest double.
Dec(mant, e10) == DecScale(FromInt(mant), Pow10(IAbs(e10)), e10)

Zero == <<0, EMin, ZeroMant>>
One == FromInt(1)

\* fmax, fmin of <cmath>, and std::max, std::min, on numbers: the first
\* argument unless the second is larger (smaller).
FMax(a, b) == IF FLess(a, b) THEN b ELSE a
FMin(a, b) == IF FLess(b, a) THEN b ELSE a

-----------------------------------------------------------------------------
(* Vectors (tuples of Scalars) and matrices (tuples of rows) *)

\* The tuple <<f[1], ..., f[k]>>, every entry computed once.
RECURSIVE Vec(_, _)
Vec(f, k) == IF k = 0 THEN <<>> ELSE Append(Vec(f, k - 1), f[k])

ZeroVec(k) == Vec([i \in 1..k |-> Zero], k)

\* Sum, difference and cwiseProduct of two vectors of one dimension.
VAdd(a, b) ==
    CASE Len(a) = Len(b) -> Vec([i \in 1..Len(a) |-> FAdd(a[i], b[i])], Len(a))
VSub(a, b) ==
    CASE Len(a) = Len(b) -> Vec([i \in 1..Len(a) |-> FSub(a[i], b[i])], Len(a))
VMul(a, b) ==
    CASE Len(a) = Len(b) -> Vec([i \in 1..Len(a) |-> FMul(a[i], b[i])], Len(a))
VScale(c, a) == Vec([i \in 1..Len(a) |-> FMul(c, a[i])], Len(a))
\* cwiseInverse
VInv(a) == Vec([i \in 1..Len(a) |-> FDiv(One, a[i])], Len(a))

\* a[1]*b[1] + ... + a[k]*b[k], summed from the left.
RECURSIVE DotUpTo(_, _, _)
DotUpTo(a, b, k) ==
    IF k = 1 THEN FMul(a[1], b[1])
    ELSE FAdd(DotUpTo(a, b, k - 1), FMul(a[k], b[k]))

Column(M, j) == Vec([i \in 1..Len(M) |-> M[i][j]], Len(M))

\* M * v and M' * v.
MatVec(M, v) ==
    CASE Len(M[1]) = Len(v) ->
        Vec([i \in 1..Len(M) |-> DotUpTo(M[i], v, Len(v))], Len(M))
MatTVec(M, v) ==
    CASE Len(M) = Len(v) ->
        Vec([j \in 1..Len(M[1]) |-> DotUpTo(Column(M, j), v, Len(v))],
            Len(M[1]))

\* maxCoeff of the absolute values: the first, replaced by each larger one.
RECURSIVE NormUpTo(_, _)
NormUpTo(a, k) ==
    IF k = 1 THEN FAbs(a[1])
    ELSE FMax(NormUpTo(a, k - 1), FAbs(a[k]))

\* lpNorm<Eigen::Infinity>
InfNorm(a) == NormUpTo(a, Len(a))

-----------------------------------------------------------------------------
(* Fixed parameters of QPSolverSparse *)

RHO_MIN == Dec(1, -6)
RHO_MAX == Dec(1, 6)
RHO_TOL == Dec(1, -4)
RHO_EQ_FACTOR == Dec(1, 3)
LOOSE_BOUNDS_THRESH == Dec(1, 16)
DIV_BY_ZERO_REGUL == Dec(1, -10)

ConstrTypes == {"INEQUALITY_CONSTRAINT", "EQUALITY_CONSTRAINT", "LOOSE_BOUNDS"}

\* qp_sover_settings_t with its default member initializers.
DefaultSettings ==
    [rho |-> Dec(1, -1), sigma |-> Dec(1, -6), alpha |-> Dec(1, 0),
     eps_rel |-> Dec(1, -3), eps_abs |-> Dec(1, -3),
     max_iter |-> 1000, check_termination |-> 25,
     warm_start |-> FALSE, adaptive_rho |-> FALSE,
     adaptive_rho_tolerance |-> Dec(5, 0), adaptive_rho_interval |-> 25]

-----------------------------------------------------------------------------
(* The private helpers of QPSolverSparse, as functions of what they read *)

\* Mutation of ClassifyRow: the equality test made non-strict.
ClassifyRow_NonStrict(lo, up) ==
    IF FLess(lo, FNeg(LOOSE_BOUNDS_THRESH)) /\ FLess(LOOSE_BOUNDS_THRESH, up)
    THEN "LOOSE_BOUNDS"
    ELSE IF FLessEq(FSub(up, lo), RHO_TOL) THEN "EQUALITY_CONSTRAINT"
    ELSE "INEQUALITY_CONSTRAINT"

\* constr_type_init: the class of one row.
ClassifyRow(lo, up) ==
    IF FLess(lo, FNeg(LOOSE_BOUNDS_THRESH)) /\ FLess(LOOSE_BOUNDS_THRESH, up)
    THEN "LOOSE_BOUNDS"
    ELSE IF FLess(FSub(up, lo), RHO_TOL) THEN "EQUALITY_CONSTRAINT"
    ELSE "INEQUALITY_CONSTRAINT"

constr_type_init(prob) ==
    Vec([i \in 1..m |-> ClassifyRow(prob.l[i], prob.u[i])], m)

\* rho_update: one entry of rho_vec.
RhoOfRow(ct, rho0) ==
    IF ct = "LOOSE_BOUNDS" THEN RHO_MIN
    ELSE IF ct = "EQUALITY_CONSTRAINT" THEN FMul(RHO_EQ_FACTOR, rho0)
    ELSE rho0

\* rho_update: the new <<rho_vec, rho_inv_vec, rho>>.
RhoRecord(rv, rho0) ==
    [rho_vec |-> rv, rho_inv_vec |-> VInv(rv), rho |-> rho0]

rho_update(ctype, rho0) ==
    RhoRecord(Vec([i \in 1..m |-> RhoOfRow(ctype[i], rho0)], m), rho0)

\* One entry of the matrix KKT_mat_update writes:
\*    [ P + sigma*I    A'                   ]
\*    [ A              -1.0 * diag(rho_inv) ]
KKTEntry(prob, sigma, rinv, i, j) ==
    IF i <= n /\ j <= n
    THEN FAdd(prob.P[i][j], FMul(sigma, IF i = j THEN One ELSE Zero))
    ELSE IF i <= n THEN prob.A[j - n][i]
    ELSE IF j <= n THEN prob.A[i - n][j]
    ELSE IF i = j THEN FMul(FNeg(One), rinv[i - n]) ELSE Zero

KKTRow(prob, sigma, rinv, i) ==
    Vec([j \in 1..(n + m) |-> KKTEntry(prob, sigma, rinv, i, j)], n + m)

\* KKT_mat_update
KKT_mat_update(prob, sigma, rinv) ==
    Vec([i \in 1..(n + m) |-> KKTRow(prob, sigma, rinv, i)], n + m)

\* form_KKT_rhs
form_KKT_rhs(prob, sigma, xx, zz, yy, rinv) ==
    VSub(VScale(sigma, xx), prob.q) \o VSub(zz, VMul(rinv, yy))

\* Mutation of box_projection: the upper bound is not applied.
box_projection_LowerOnly(zz, lo, up) ==
    Vec([i \in 1..Len(zz) |-> IF FLess(zz[i], lo[i]) THEN lo[i] ELSE zz[i]],
        Len(zz))

\* One entry of z.cwiseMax(l).cwiseMin(u): std::max(z, l), then std::min(., u).
ClipEntry(v, lo, up) == FMin(FMax(v, lo), up)

\* box_projection
box_projection(zz, lo, up) ==
    Vec([i \in 1..Len(zz) |-> ClipEntry(zz[i], lo[i], up[i])], Len(zz))

residual_prim(prob, xx, zz) == InfNorm(VSub(MatVec(prob.A, xx), zz))

residual_dual(prob, xx, yy) ==
    InfNorm(VAdd(VAdd(MatVec(prob.P, xx), prob.q), MatTVec(prob.A, yy)))

max_Ax_z_norm(prob, xx, zz) == FMax(InfNorm(MatVec(prob.A, xx)), InfNorm(zz))

max_Px_ATy_q_norm(prob, xx, yy) ==
    FMax(InfNorm(MatVec(prob.P, xx)),
         FMax(InfNorm(MatTVec(prob.A, yy)), InfNorm(prob.q)))

eps_prim(prob, s, xx, zz) ==
    FAdd(s.eps_abs, FMul(s.eps_rel, max_Ax_z_norm(prob, xx, zz)))

eps_dual(prob, s, xx, yy) ==
    FAdd(s.eps_abs, FMul(s.eps_rel, max_Px_ATy_q_norm(prob, xx, yy)))

\* Mutation of termination_criteria: the dual residual is not tested.
termination_criteria_PrimalOnly(prob, s, inf, xx, zz, yy) ==
    FLessEq(inf.res_prim, eps_prim(prob, s, xx, zz))

\* termination_criteria: the cached residuals against fresh tolerances.
termination_criteria(prob, s, inf, xx, zz, yy) ==
    /\ FLessEq(inf.res_prim, eps_prim(prob, s, xx, zz))
    /\ FLessEq(inf.res_dual, eps_dual(prob, s, xx, yy))

\* rho_estimate, from the cached residuals and norms.
rho_estimate(rho0, inf, nAxz, nPxATyq) ==
    LET rp_norm == FDiv(inf.res_prim, FAdd(nAxz, DIV_BY_ZERO_REGUL))
        rd_norm == FDiv(inf.res_dual, FAdd(nPxATyq, DIV_BY_ZERO_REGUL))
    IN  FMul(rho0, FSqrt(FDiv(rp_norm, FAdd(rd_norm, DIV_BY_ZERO_REGUL))))

\* new_rho = fmax(RHO_MIN, fmin(new_rho, RHO_MAX))
ClampRho(r) == FMax(RHO_MIN, FMin(r, RHO_MAX))

\* The test that guards the adaptive rho_update.
RhoTrigger(new_rho, rho0, tol) ==
    FLess(new_rho, FDiv(rho0, tol)) \/ FLess(FMul(rho0, tol), new_rho)

-----------------------------------------------------------------------------
(* The linear solver: Eigen::SimplicialLDLT on the lower triangle, in the  *)
(* order of the rows as they are.  A has no zero in the problems below, so *)
(* every entry of L below the diagonal is computed.                        *)

\* Row k of L and D[k]: the entries of column k above the diagonal are
\* eliminated from the left; yv holds what is left of them.
RECURSIVE LdltRow(_, _, _, _, _, _, _)
\* Column i is eliminated with the entry l_ki = yv[i] / D[i] of L.
LdltEliminate(L, D, k, i, yv, d, row, l_ki) ==
    LdltRow(L, D, k, i + 1,
            Vec([r \in 1..(k - 1) |->
                   IF r > i THEN FSub(yv[r], FMul(L[r][i], yv[i]))
                   ELSE yv[r]], k - 1),
            FSub(d, FMul(l_ki, yv[i])), Append(row, l_ki))
LdltRow(L, D, k, i, yv, d, row) ==
    IF i = k THEN <<row, d>>
    ELSE LdltEliminate(L, D, k, i, yv, d, row, FDiv(yv[i], D[i]))

RECURSIVE LdltFrom(_, _, _, _)
\* rd is row k of L with D[k].
LdltNext(K, k, L, D, rd) ==
    LdltFrom(K, k + 1, Append(L, rd[1]), Append(D, rd[2]))
LdltFrom(K, k, L, D) ==
    IF k > Len(K) THEN [L |-> L, D |-> D]
    ELSE LdltNext(K, k, L, D,
                  LdltRow(L, D, k, 1,
                          Vec([i \in 1..(k - 1) |-> K[k][i]], k - 1),
                          K[k][k], <<>>))

\* K = L D L' with L unit lower triangular (its rows below the diagonal)
\* and D diagonal.
Ldlt(K) == LdltFrom(K, 1, <<>>, <<>>)

\* L w' = w: column by column, a zero entry of w skipped.
RECURSIVE ForwardSubst(_, _, _)
ForwardSubst(L, w, i) ==
    IF i > Len(w) THEN w
    ELSE ForwardSubst(L,
             IF IsZero(w[i]) THEN w
             ELSE Vec([r \in 1..Len(w) |->
                         IF r > i THEN FSub(w[r], FMul(w[i], L[r][i]))
                         ELSE w[r]], Len(w)),
             i + 1)

\* w[i] less the products L[r][i] * w[r], r = from.., in that order.
RECURSIVE BackwardRow(_, _, _, _, _)
BackwardRow(L, w, i, from, t) ==
    IF from > Len(w) THEN t
    ELSE BackwardRow(L, w, i, from + 1, FSub(t, FMul(L[from][i], w[from])))

\* L' w' = w: from the last row up.
RECURSIVE BackwardSubst(_, _, _)
BackwardSubst(L, w, i) ==
    IF i = 0 THEN w
    ELSE BackwardSubst(L, [w EXCEPT ![i] = BackwardRow(L, w, i, i + 1, w[i])],
                       i - 1)

\* linear_solver.solve(rhs) with the factors F: forward substitution, the
\* product with the inverse of D, backward substitution.
DiagonalSolve(D, w) ==
    Vec([i \in 1..Len(w) |-> FMul(FDiv(One, D[i]), w[i])], Len(w))
BackwardSolve(L, w) == BackwardSubst(L, w, Len(w))
LinearSolve(F, rhs) ==
    BackwardSolve(F.L, DiagonalSolve(F.D, ForwardSubst(F.L, rhs, 1)))

-----------------------------------------------------------------------------
(* Inputs *)

\* What a caller writes through settings().  max_iter = 0 and rho < 0 are
\* outside the documented domains; solve() accepts them.
Tuned(mi, ct, ws, ar, iv) ==
    [DefaultSettings EXCEPT !.max_iter = mi, !.check_termination = ct,
                            !.warm_start = ws, !.adaptive_rho = ar,
                            !.adaptive_rho_interval = iv]

\* The default settings with the iteration limit brought down: the test and
\* the adaptive step are due at iteration 25, past the limit.
CappedDefaultSettings == [DefaultSettings EXCEPT !.max_iter = MaxIter]

ValidSettings ==
    { Tuned(MaxIter, 1, FALSE, TRUE, 1),
      Tuned(MaxIter, MaxIter, TRUE, TRUE, MaxIter),
      [Tuned(1, 1, TRUE, FALSE, 1) EXCEPT !.eps_abs = Dec(1, -2),
                                          !.eps_rel = Dec(1, -4)],
      CappedDefaultSettings }

RelaxedSettings ==
    {[DefaultSettings EXCEPT !.sigma = Dec(1, -5), !.alpha = Dec(15, -1),
                             !.max_iter = MaxIter,
                             !.check_termination = 0, !.warm_start = TRUE,
                             !.adaptive_rho = TRUE,
                             !.adaptive_rho_tolerance = Dec(15, -1),
                             !.adaptive_rho_interval = 1]}

NoIterationSettings == {Tuned(0, 1, TRUE, FALSE, 1)}

NegativeRhoSettings ==
    {[DefaultSettings EXCEPT !.rho = Dec(-1, -1), !.max_iter = 1,
                             !.check_termination = 1]}

SettingsSet ==
    ValidSettings \cup RelaxedSettings \cup NoIterationSettings
        \cup NegativeRhoSettings

MkQP(q1, l1, u1, l2, u2) ==
    [P |-> <<<<One>>>>, q |-> <<q1>>, A |-> <<<<One>>, <<One>>>>,
     l |-> <<l1, l2>>, u |-> <<u1, u2>>]

\* The problems passed to solve: every branch of the classifier, rows at its
\* boundaries (l = -1e16, u = 1e16, u - l = 1e-4 at l = 0 and next to it at
\* l = 0.5), and one problem with l > u.
QPSet ==
    { MkQP(Dec(-1, 0), Dec(-1, 0), Dec(1, 0), Dec(-2, 16), Dec(2, 16)),
      MkQP(Zero, Dec(5, -1), Dec(5001, -4), Dec(-1, 16), Dec(2, 16)),
      MkQP(Dec(-1, 0), Zero, Dec(1, -4), Zero, Dec(9, -5)),
      MkQP(Zero, One, Zero, Dec(-2, 16), Dec(1, 16)),
      MkQP(Dec(-1, 0), Zero, Dec(1, -4), Dec(-2, 16), Dec(1, 16)) }

\* What a caller writes through primal_solution(), dual_solution() and info(),
\* and into the public members z and rho.
PrimalWrites == {<<Dec(7, 0)>>}
DualWrites == {Dec(3, 0)}
InfoWrites == {[status |-> "SOLVED", iter |-> 0]}
MemberWrites == {[z |-> <<Dec(5, 0), Dec(-5, 0)>>], [rho |-> Dec(5, 0)]}

-----------------------------------------------------------------------------
(* State *)

VARIABLES
    pc,                 \* "idle", the place inside solve, or "done" at return
    calls,              \* solve calls returned so far
    writes,             \* writes of the caller so far
    settings,           \* _settings
    qp,                 \* the argument of the current (or last) solve call
    iter, x, z, y, x_tilde, z_tilde, z_prev,
    rho_vec, rho_inv_vec, rho,
    max_Ax_z, max_Px_ATy_q,     \* _max_Ax_z_norm, _max_Px_ATy_q_norm
    constr_type,
    info,               \* _info
    kkt_mat,
    fact,               \* the factors linear_solver holds
    check_termination,  \* the local of solve
    entry,              \* history: the solver state when solve was entered
    left,               \* history: x, z, y as construction or the last return
                        \*          left them, until the caller writes one
    tested,             \* history: iterations of this call that ran the test
    adapt_ran,          \* history: iterations of this call that ran line 184 on
    admm_count          \* history: ADMM iterations executed by this call

iterate == <<x, z, y>>
scratch == <<x_tilde, z_tilde, z_prev>>
penalty == <<rho_vec, rho_inv_vec, rho>>
caches == <<max_Ax_z, max_Px_ATy_q>>
history == <<entry, left, tested, adapt_ran, admm_count>>
vars == <<pc, calls, writes, settings, qp, iter, iterate, scratch, penalty,
          caches, constr_type, info, kkt_mat, fact, check_termination,
          history>>

\* A member the constructor leaves uninitialized: no number, no vector.  solve
\* writes each of them before it reads it; a read of this value stops TLC.
Indeterminate == <<>>

SolverState ==
    [x |-> x, z |-> z, y |-> y, rho |-> rho, rho_vec |-> rho_vec,
     rho_inv_vec |-> rho_inv_vec, constr_type |-> constr_type,
     info |-> info, fact |-> fact]

\* QPSolverSparse(): x, z, y zeroed, everything else as the language leaves it.
Init ==
    /\ pc = "idle"
    /\ calls = 0
    /\ writes = 0
    /\ settings = DefaultSettings
    /\ qp = Indeterminate
    /\ iter = Indeterminate
    /\ x = ZeroVec(n) /\ z = ZeroVec(m) /\ y = ZeroVec(m)
    /\ x_tilde = Indeterminate /\ z_tilde = Indeterminate
    /\ z_prev = Indeterminate
    /\ rho_vec = Indeterminate /\ rho_inv_vec = Indeterminate
    /\ rho = Indeterminate
    /\ max_Ax_z = Indeterminate /\ max_Px_ATy_q = Indeterminate
    /\ constr_type = Indeterminate
    /\ info = [status |-> "INDETERMINATE", iter |-> Indeterminate,
               res_prim |-> Indeterminate, res_dual |-> Indeterminate]
    /\ kkt_mat = Indeterminate
    /\ fact = Indeterminate
    /\ check_termination = FALSE
    /\ entry = Indeterminate
    /\ left = [x |-> ZeroVec(n), z |-> ZeroVec(m), y |-> ZeroVec(m)]
    /\ tested = {} /\ adapt_ran = {} /\ admm_count = 0

-----------------------------------------------------------------------------
(* The caller, between two calls of solve *)

\* No solve is running and the caller has a call left to make: what is
\* written after the last call is read by no solve.
Outside == pc \in {"idle", "done"} /\ calls < MaxCalls

\* settings() returns a reference: the caller writes the settings whenever
\* no solve is running.
Configure ==
    /\ Outside
    /\ \E s \in SettingsSet : settings' = s
    /\ pc' = "idle"
    /\ UNCHANGED <<calls, writes, qp, iter, iterate, scratch, penalty, caches,
                   constr_type, info, kkt_mat, fact, check_termination,
                   history>>

\* primal_solution() returns a reference to x.
WritePrimal ==
    /\ Outside /\ writes < MaxWrites
    /\ \E v \in PrimalWrites : x' = v
    /\ left' = Indeterminate
    /\ pc' = "idle"
    /\ writes' = writes + 1
    /\ UNCHANGED <<calls, settings, qp, iter, z, y, scratch, penalty, caches,
                   constr_type, info, kkt_mat, fact, check_termination,
                   entry, tested, adapt_ran, admm_count>>

\* dual_solution() returns a reference to y.
WriteDual ==
    /\ Outside /\ writes < MaxWrites
    /\ \E v \in DualWrites : y' = [y EXCEPT ![1] = v]
    /\ left' = Indeterminate
    /\ pc' = "idle"
    /\ writes' = writes + 1
    /\ UNCHANGED <<calls, settings, qp, iter, x, z, scratch, penalty, caches,
                   constr_type, info, kkt_mat, fact, check_termination,
                   entry, tested, adapt_ran, admm_count>>

\* info() returns a reference to _info.
WriteInfo ==
    /\ Outside /\ writes < MaxWrites
    /\ \E v \in InfoWrites :
          info' = [info EXCEPT !.status = v.status, !.iter = v.iter]
    /\ pc' = "idle"
    /\ writes' = writes + 1
    /\ UNCHANGED <<calls, settings, qp, iter, iterate, scratch, penalty,
                   caches, constr_type, kkt_mat, fact, check_termination,
                   history>>

\* The state variables are public members.
WriteMember ==
    /\ Outside /\ writes < MaxWrites
    /\ \E v \in MemberWrites :
          IF "z" \in DOMAIN v
          THEN z' = v.z /\ left' = Indeterminate /\ UNCHANGED rho
          ELSE rho' = v.rho /\ UNCHANGED <<z, left>>
    /\ pc' = "idle"
    /\ writes' = writes + 1
    /\ UNCHANGED <<calls, settings, qp, iter, x, y, scratch, rho_vec,
                   rho_inv_vec, caches, constr_type, info, kkt_mat, fact,
                   check_termination, entry, tested, adapt_ran, admm_count>>

-----------------------------------------------------------------------------
(* solve(), step by step *)

\* Mutation of WarmStart: the iterate is never reset.
WarmStart_NeverReset(ws, v, k) == v

\* if (!_settings.warm_start) v.setZero();
WarmStart(ws, v, k) == IF ws THEN v ELSE ZeroVec(k)

\* The loop condition  iter <= _settings.max_iter.
LoopCond(it, s) == it <= s.max_iter

\* Mutation of CheckFlag: the test runs at every iteration once enabled.
CheckFlag_NoCadence(s, it) == s.check_termination # 0

\* _settings.check_termination != 0 && iter % _settings.check_termination == 0
CheckFlag(s, it) ==
    s.check_termination # 0 /\ it % s.check_termination = 0

\* Mutation of AdaptFlag: the interval is ignored.
AdaptFlag_NoInterval(s, it) == s.adaptive_rho

\* _settings.adaptive_rho && iter % _settings.adaptive_rho_interval == 0
AdaptFlag(s, it) ==
    s.adaptive_rho /\ it % s.adaptive_rho_interval = 0

\* update_state: the norm caches and the residuals of _info.
update_state(prob, xx, zz, yy) ==
    [max_Ax_z |-> max_Ax_z_norm(prob, xx, zz),
     max_Px_ATy_q |-> max_Px_ATy_q_norm(prob, xx, yy),
     res_prim |-> residual_prim(prob, xx, zz),
     res_dual |-> residual_dual(prob, xx, yy)]

\* linear_solver.compute(M): the factors the solver holds afterwards.
Compute(M, old) == Ldlt(M)

\* Mutation of Factorize: the refactorization is skipped.
Factorize_Skipped(M, old) == old

\* linear_solver.factorize(M): the factors the solver holds afterwards.
Factorize(M, old) == Ldlt(M)

\* The status and iteration count solve leaves in _info (lines 202-205).
ExitStatus(it, s, st) == IF it > s.max_iter THEN "MAX_ITER" ELSE st

\* Mutation of ExitIter: the last iteration executed is reported.
ExitIter_LastIteration(it) == it - 1

ExitIter(it) == it

\* Lines 126-146: warm start, classification, rho schedule, KKT matrix,
\* compute, and the loop's initialisation and first test.
SolveEntry(prob) ==
    /\ Outside
    /\ settings.max_iter <= MaxIter
    /\ qp' = prob
    /\ x' = WarmStart(settings.warm_start, x, n)
    /\ z' = WarmStart(settings.warm_start, z, m)
    /\ y' = WarmStart(settings.warm_start, y, m)
    /\ constr_type' = constr_type_init(prob)
    /\ \E ru \in {rho_update(constr_type', settings.rho)} :
          /\ rho_vec' = ru.rho_vec
          /\ rho_inv_vec' = ru.rho_inv_vec
          /\ rho' = ru.rho
    /\ kkt_mat' = KKT_mat_update(prob, settings.sigma, rho_inv_vec')
    /\ fact' = Compute(kkt_mat', fact)
    /\ check_termination' = FALSE
    /\ iter' = 1
    /\ pc' = IF LoopCond(1, settings) THEN "admm" ELSE "exit"
    /\ entry' = SolverState
    /\ tested' = {} /\ adapt_ran' = {} /\ admm_count' = 0
    /\ UNCHANGED <<calls, writes, settings, scratch, caches, info, left>>

\* alpha * z_tilde + (1 - alpha) * z_prev  (lines 160 and 164).
Relaxed(al, zt, zp) == VAdd(VScale(al, zt), VScale(FSub(One, al), zp))

\* Lines 147-164: one ADMM iteration.
AdmmStep ==
    /\ pc = "admm"
    /\ z_prev' = z
    /\ \E x_tilde_nu \in
             {LinearSolve(fact, form_KKT_rhs(qp, settings.sigma, x, z, y,
                                             rho_inv_vec))} :
          /\ x_tilde' = SubSeq(x_tilde_nu, 1, n)
          /\ z_tilde' = VAdd(z, VMul(rho_inv_vec,
                                     VSub(SubSeq(x_tilde_nu, n + 1, n + m),
                                          y)))
    /\ x' = VAdd(VScale(settings.alpha, x_tilde'),
                 VScale(FSub(One, settings.alpha), x))
    /\ \E relaxed \in {Relaxed(settings.alpha, z_tilde', z_prev')} :
          /\ z' = box_projection(VAdd(relaxed, VMul(rho_inv_vec, y)),
                                 qp.l, qp.u)
          /\ y' = VAdd(y, VMul(rho_vec, VSub(relaxed, z')))
    /\ pc' = "check"
    /\ admm_count' = admm_count + 1
    /\ UNCHANGED <<calls, writes, settings, qp, iter, penalty, caches,
                   constr_type, info, kkt_mat, fact, check_termination,
                   entry, left, tested, adapt_ran>>

\* Lines 166-182: the termination test.
CheckTermination ==
    /\ pc = "check"
    /\ check_termination' = CheckFlag(settings, iter)
    /\ IF check_termination'
       THEN /\ \E us \in {update_state(qp, x, z, y)} :
                  /\ max_Ax_z' = us.max_Ax_z
                  /\ max_Px_ATy_q' = us.max_Px_ATy_q
                  /\ \E inf \in {[info EXCEPT !.res_prim = us.res_prim,
                                             !.res_dual = us.res_dual]} :
                        IF termination_criteria(qp, settings, inf, x, z, y)
                        THEN /\ info' = [inf EXCEPT !.status = "SOLVED"]
                             /\ pc' = "exit"
                        ELSE /\ info' = inf
                             /\ pc' = "adapt"
            /\ tested' = tested \cup {iter}
       ELSE /\ pc' = "adapt"
            /\ UNCHANGED <<caches, info, tested>>
    /\ UNCHANGED <<calls, writes, settings, qp, iter, iterate, scratch,
                   penalty, constr_type, kkt_mat, fact, entry, left,
                   adapt_ran, admm_count>>

\* Lines 184-200: the adaptive rho step, then iter++ and the loop test.
AdaptiveRho ==
    /\ pc = "adapt"
    /\ IF AdaptFlag(settings, iter)
       THEN /\ IF check_termination
               THEN UNCHANGED <<caches, info>>
               ELSE \E us \in {update_state(qp, x, z, y)} :
                       /\ max_Ax_z' = us.max_Ax_z
                       /\ max_Px_ATy_q' = us.max_Px_ATy_q
                       /\ info' = [info EXCEPT !.res_prim = us.res_prim,
                                               !.res_dual = us.res_dual]
            /\ adapt_ran' = adapt_ran \cup {iter}
            /\ \E new_rho \in {ClampRho(rho_estimate(rho, info', max_Ax_z',
                                                     max_Px_ATy_q'))} :
                  IF RhoTrigger(new_rho, rho, settings.adaptive_rho_tolerance)
                  THEN /\ \E ru \in {rho_update(constr_type, new_rho)} :
                             /\ rho_vec' = ru.rho_vec
                             /\ rho_inv_vec' = ru.rho_inv_vec
                             /\ rho' = ru.rho
                       /\ kkt_mat' = KKT_mat_update(qp, settings.sigma,
                                                    rho_inv_vec')
                       /\ fact' = Factorize(kkt_mat', fact)
                  ELSE UNCHANGED <<penalty, kkt_mat, fact>>
       ELSE UNCHANGED <<penalty, caches, info, kkt_mat, fact, adapt_ran>>
    /\ iter' = iter + 1
    /\ pc' = IF LoopCond(iter + 1, settings) THEN "admm" ELSE "exit"
    /\ UNCHANGED <<calls, writes, settings, qp, iterate, scratch,
                   constr_type, check_termination, entry, left, tested,
                   admm_count>>

\* Lines 202-206: the status and the iteration count, and the return.
Return ==
    /\ pc = "exit"
    /\ info' = [info EXCEPT !.status = ExitStatus(iter, settings, info.status),
                            !.iter = ExitIter(iter)]
    /\ pc' = "done"
    /\ calls' = calls + 1
    /\ left' = [x |-> x, z |-> z, y |-> y]
    /\ UNCHANGED <<writes, settings, qp, iter, iterate, scratch, penalty,
                   caches, constr_type, kkt_mat, fact, check_termination,
                   entry, tested, adapt_ran, admm_count>>

Solve == \E prob \in QPSet : SolveEntry(prob)

Next ==
    \/ Configure
    \/ WritePrimal
    \/ WriteDual
    \/ WriteInfo
    \/ WriteMember
    \/ Solve
    \/ AdmmStep
    \/ CheckTermination
    \/ AdaptiveRho
    \/ Return

Spec == Init /\ [][Next]_vars

-----------------------------------------------------------------------------
(* Properties *)

InSolve == pc \in {"admm", "check", "adapt", "exit"}

\* solve has just returned: nothing has been written since.
Returned == pc = "done"

\* The two termination inequalities, evaluated on given x, z, y.
Optimal(prob, s, xx, zz, yy) ==
    /\ FLessEq(InfNorm(VSub(MatVec(prob.A, xx), zz)),
               FAdd(s.eps_abs, FMul(s.eps_rel,
                   FMax(InfNorm(MatVec(prob.A, xx)), InfNorm(zz)))))
    /\ FLessEq(InfNorm(VAdd(VAdd(MatVec(prob.P, xx), prob.q),
                            MatTVec(prob.A, yy))),
               FAdd(s.eps_abs, FMul(s.eps_rel,
                   FMax(InfNorm(MatVec(prob.P, xx)),
                        FMax(InfNorm(MatTVec(prob.A, yy)), InfNorm(prob.q))))))

\* C1: when solve returns SOLVED, the x, y, z it returns satisfy both
\* termination inequalities for the problem and tolerances of that call.
C1_SolvedIsOptimal ==
    (Returned /\ info.status = "SOLVED") => Optimal(qp, settings, x, z, y)

C1_Witness ==
    /\ Returned /\ info.status = "SOLVED"
    /\ x # ZeroVec(n) /\ y # ZeroVec(m)
    /\ ~IsZero(info.res_dual)

\* The termination test of the last executed iteration ran and passed.
TestPassed ==
    admm_count \in tested /\ Optimal(qp, settings, x, z, y)

\* C2: a solve call with max_iter >= 1 that leaves the loop without the
\* termination test passing returns MAX_ITER and info.iter = max_iter + 1
\* (so iter = 2 for max_iter = 1).
C2_MaxIterExit ==
    (Returned /\ settings.max_iter >= 1 /\ ~TestPassed) =>
        /\ info.status = "MAX_ITER"
        /\ info.iter = settings.max_iter + 1

C2_Witness ==
    /\ Returned /\ settings.max_iter = 1
    /\ tested = {1} /\ ~TestPassed
    /\ info.status = "MAX_ITER" /\ info.iter = 2

LowerLeUpper(prob) == \A i \in 1..m : FLessEq(prob.l[i], prob.u[i])

\* C3: for a problem with l <= u, once an iteration of the call has done its
\* z update and projection, l <= z <= u holds componentwise, up to and
\* including the return, whatever x, z, y the call started from.
C3_ZInBox ==
    ((InSolve \/ Returned) /\ admm_count >= 1 /\ LowerLeUpper(qp)) =>
        \A i \in 1..m : FLessEq(qp.l[i], z[i]) /\ FLessEq(z[i], qp.u[i])

\* A projection that clips one row to its upper bound and leaves the other
\* strictly inside, in a call that started from a z the caller wrote.
C3_Witness ==
    /\ pc = "check" /\ LowerLeUpper(qp)
    /\ left = Indeterminate /\ entry.z # ZeroVec(m)
    /\ \E i \in 1..m : z[i] = qp.u[i] /\ z[i] # z_tilde[i]
    /\ \E i \in 1..m : FLess(qp.l[i], z[i]) /\ FLess(z[i], qp.u[i])

\* The clamped estimate rho_new, from residuals and norms of the current
\* x, z, y.
ClampedEstimate ==
    LET rp == FDiv(InfNorm(VSub(MatVec(qp.A, x), z)),
                   FAdd(FMax(InfNorm(MatVec(qp.A, x)), InfNorm(z)),
                        DIV_BY_ZERO_REGUL))
        rd == FDiv(InfNorm(VAdd(VAdd(MatVec(qp.P, x), qp.q),
                                MatTVec(qp.A, y))),
                   FAdd(FMax(InfNorm(MatVec(qp.P, x)),
                             FMax(InfNorm(MatTVec(qp.A, y)), InfNorm(qp.q))),
                        DIV_BY_ZERO_REGUL))
        est == FMul(rho, FSqrt(FDiv(rp, FAdd(rd, DIV_BY_ZERO_REGUL))))
    IN  FMax(RHO_MIN, FMin(est, RHO_MAX))

\* C4: a step inside the iteration loop changes rho, rho_vec or rho_inv_vec
\* only if adaptive_rho is enabled, the iteration is a multiple of
\* adaptive_rho_interval, and the clamped estimate is below
\* rho / adaptive_rho_tolerance or above rho * adaptive_rho_tolerance.
C4_RhoCadence ==
    [][(pc \in {"admm", "check", "adapt"} /\ penalty' # penalty) =>
          /\ settings.adaptive_rho
          /\ iter % settings.adaptive_rho_interval = 0
          /\ \/ FLess(ClampedEstimate,
                      FDiv(rho, settings.adaptive_rho_tolerance))
             \/ FLess(FMul(rho, settings.adaptive_rho_tolerance),
                      ClampedEstimate)]_vars

\* The adaptive step ran at iterations 1 and 2 and changed rho both times.
C4_Witness ==
    /\ InSolve /\ iter = 3 /\ adapt_ran = {1, 2}
    /\ rho # settings.rho
    /\ rho_vec # rho_update(constr_type, settings.rho).rho_vec
    /\ kkt_mat[n + m][n + m] # FNeg(FDiv(One, rho))

Two == Dec(2, 0)

InvalidSettings(s) ==
    \/ FLessEq(s.rho, Zero) \/ FLessEq(s.sigma, Zero)
    \/ FLessEq(s.alpha, Zero) \/ FLessEq(Two, s.alpha)
    \/ FLess(s.eps_abs, Zero) \/ FLess(s.eps_rel, Zero)
    \/ s.max_iter < 1
    \/ FLessEq(s.adaptive_rho_tolerance, One)

InvalidProblem(prob) == \E i \in 1..m : FLess(prob.u[i], prob.l[i])

\* C5: a solve call with invalid settings or an invalid problem leaves the
\* solver state as it was when the call was made.
C5_InvalidInputKeepsState ==
    (InSolve /\ (InvalidSettings(settings) \/ InvalidProblem(qp))) =>
        SolverState = entry

\* The numbers of sections 4.1 and 4.2.
LooseRho == Dec(1, -6)
EqualityFactor == Dec(1, 3)
LooseThreshold == Dec(1, 16)
EqualityWidth == Dec(1, -4)

\* The rho schedule of section 4.2 for one row.
Schedule(ct, r) ==
    CASE ct = "LOOSE_BOUNDS" -> LooseRho
      [] ct = "EQUALITY_CONSTRAINT" -> FMul(EqualityFactor, r)
      [] ct = "INEQUALITY_CONSTRAINT" -> r

\* C6: inside a solve call, after the initial rho_update, every row has
\* rho_vec[i] as scheduled from constr_type[i] and the current rho,
\* rho_vec[i] > 0 and rho_inv_vec[i] = 1 / rho_vec[i].
C6_RhoSchedule ==
    InSolve =>
        \A i \in 1..m :
            /\ rho_vec[i] = Schedule(constr_type[i], rho)
            /\ FLess(Zero, rho_vec[i])
            /\ rho_inv_vec[i] = FDiv(One, rho_vec[i])

\* The same with the sign left out: it holds for every rho the model sets.
C6_ScheduleShape ==
    InSolve =>
        \A i \in 1..m :
            /\ rho_vec[i] = Schedule(constr_type[i], rho)
            /\ rho_inv_vec[i] = FDiv(One, rho_vec[i])

\* The classification of section 4.1 for one row.
Classification(lo, up) ==
    IF FLess(lo, FNeg(LooseThreshold)) /\ FLess(LooseThreshold, up)
    THEN "LOOSE_BOUNDS"
    ELSE IF FLess(FSub(up, lo), EqualityWidth) THEN "EQUALITY_CONSTRAINT"
    ELSE "INEQUALITY_CONSTRAINT"

\* C7: throughout a solve call, constr_type[i] is the classification of
\* (l[i], u[i]) of the problem passed to this call.
C7_Classified ==
    InSolve =>
        \A i \in 1..m : constr_type[i] = Classification(qp.l[i], qp.u[i])

\* A second call on another problem than the first, with a row whose u - l
\* is exactly the double 1e-4 and a row with l < -1e16 and u exactly 1e16:
\* neither an equality nor loose.
C7_Witness ==
    /\ pc = "adapt" /\ calls = 1
    /\ entry.constr_type # constr_type
    /\ \E i \in 1..m :
          /\ FSub(qp.u[i], qp.l[i]) = EqualityWidth
          /\ constr_type[i] = "INEQUALITY_CONSTRAINT"
    /\ \E i \in 1..m :
          /\ FLess(qp.l[i], FNeg(LooseThreshold))
          /\ qp.u[i] = LooseThreshold
          /\ constr_type[i] = "INEQUALITY_CONSTRAINT"

\* The KKT matrix of section 4.3 for a problem, sigma and rho_vec.
KKT(prob, sigma, rv) ==
    Vec([i \in 1..(n + m) |-> Vec([j \in 1..(n + m) |->
        CASE i <= n /\ j <= n ->
                 IF i = j THEN FAdd(prob.P[i][j], sigma) ELSE prob.P[i][j]
          [] i <= n /\ j > n -> prob.A[j - n][i]
          [] i > n /\ j <= n -> prob.A[i - n][j]
          [] i > n /\ j > n ->
                 IF i = j THEN FNeg(FDiv(One, rv[i - n])) ELSE Zero],
        n + m)], n + m)

\* Before the first iteration of a call (and at the exit, when there is none).
AtLoopStart == InSolve /\ iter = 1 /\ admm_count = 0

C9_FactorizationFresh ==
    pc = "admm" => fact = Ldlt(KKT(qp, settings.sigma, rho_vec))

\* A linear solve after an adaptive rho update.
C9_Witness ==
    /\ pc = "admm" /\ iter > 1 /\ rho # settings.rho
    /\ fact # entry.fact

\* Iterations of this call that are past the termination-test step.
PastTest == IF pc = "check" THEN admm_count - 1 ELSE admm_count

\* C10: the termination test has run at exactly the iterations k with
\* check_termination # 0 and k mod check_termination = 0, each time before
\* the adaptive-rho step of iteration k; SOLVED is returned only at such a k,
\* 1 <= k <= max_iter, with info.iter = k and no adaptive-rho step at k; with
\* check_termination = 0 or > max_iter the call runs max_iter iterations and
\* returns MAX_ITER.
C10_TestCadence ==
    /\ InSolve =>
          /\ tested = {k \in 1..PastTest :
                          /\ settings.check_termination # 0
                          /\ k % settings.check_termination = 0}
          /\ adapt_ran \subseteq 1..PastTest
          /\ pc = "adapt" => iter \notin adapt_ran
    /\ (Returned /\ info.status = "SOLVED") =>
          /\ info.iter \in tested
          /\ 1 <= info.iter /\ info.iter <= settings.max_iter
          /\ admm_count = info.iter
          /\ info.iter \notin adapt_ran
    /\ (Returned /\ (\/ settings.check_termination = 0
                     \/ settings.check_termination > settings.max_iter)) =>
          /\ admm_count = settings.max_iter
          /\ info.status = "MAX_ITER"

\* SOLVED at iteration 2, after a failed test and an adaptive step at 1.
C10_Witness ==
    /\ Returned /\ info.status = "SOLVED" /\ info.iter = 2
    /\ tested = {1, 2} /\ adapt_ran = {1}

====
